---- MODULE Spec2Model ----
(***************************************************************************)
(* PhotoSwipe Cleaner (src/photoswipe_cleaner.py): the triage session of   *)
(* class PhotoSwipeCleaner -- folder, files_order, index, last_action,     *)
(* _finished_dialog_shown -- together with the part of the file system it  *)
(* reads and writes: the image files of the opened folders and their       *)
(* .pswipe_last_backup staging directories.                                *)
(*                                                                         *)
(* Every handler runs to completion on the UI thread, so each is one       *)
(* action.  The only place a handler waits for the user is the modal       *)
(* QMessageBox of on_finished_list (msg.exec()); it is always the last     *)
(* thing a handler does, so the open dialog is a position of the program   *)
(* (pc = "dialog") and the button pressed is a separate action.            *)
(***************************************************************************)
EXTENDS Integers, Sequences, FiniteSets, TLC

VARIABLES
    folder,                 \* self.folder: the opened root, or NoFolder
    files_order,            \* self.files_order: sequence of relative paths
    index,                  \* self.index
    last_action,            \* self.last_action: NoAction, a keep or a delete record
    finished_dialog_shown,  \* self._finished_dialog_shown
    pc,                     \* "ctor", "ctor_dialog", "idle", "dialog", "closed"
    fs,                     \* the file system: absolute path -> content id
    corrupt,                \* content ids QPixmap cannot decode
    extLeft,                \* files other programs will still create
    lastOp,                 \* history: the operation that ran last, with its outcome
    prevOp,                 \* history: the operation before it, if a keep or its undo
    pre                     \* history: the session just before the last successful delete

vars == <<folder, files_order, index, last_action, finished_dialog_shown, pc,
          fs, corrupt, extLeft, lastOp, prevOp, pre>>

-----------------------------------------------------------------------------
(* Bounds of the model *)

\* how many files other programs may create in the opened folders during a run
MaxExternal == 1

-----------------------------------------------------------------------------
(* Names and paths.  A file name is stem + "__pswipe_<i>" for each i of    *)
(* tags + "." + ext, which is what unique_name builds with splitext.       *)

Folders == {"F1", "F2"}
NoFolder == "none"
BACKUP_DIRNAME == ".pswipe_last_backup"
IMG_EXT == {"jpg", "jpeg", "png", "gif", "bmp", "tiff", "webp", "heic", "heif"}

\* str.lower() on the suffixes the model uses
Lower(ext) == IF ext = "PNG" THEN "png" ELSE IF ext = "JPG" THEN "jpg" ELSE ext

Name(stem, tags, ext) == [stem |-> stem, tags |-> tags, ext |-> ext]
RelPath(dir, name) == [dir |-> dir, name |-> name]
AbsPath(f, dir, name) == [folder |-> f, dir |-> dir, name |-> name]

\* self.folder / rel
Join(f, rel) == AbsPath(f, rel.dir, rel.name)
\* str(p.relative_to(self.folder))
RelativeTo(p) == RelPath(p.dir, p.name)

Exists(disk, p) == p \in DOMAIN disk

\* the files of folder f's staging directory
Staged(disk, f) == {p \in DOMAIN disk : p.folder = f /\ p.dir = BACKUP_DIRNAME}

\* Path.unlink / the source side of a move
RemoveFile(disk, p) == [q \in DOMAIN disk \ {p} |-> disk[q]]
RemoveFiles(disk, ps) == [q \in DOMAIN disk \ ps |-> disk[q]]
\* shutil.move(src, dst) that succeeded
MoveFile(disk, src, dst) ==
    [q \in (DOMAIN disk \ {src}) \cup {dst} |-> IF q = dst THEN disk[src] ELSE disk[q]]

NoAction == [type |-> "none"]
NoSnapshot == [set |-> FALSE]

-----------------------------------------------------------------------------
(* Pure helpers of the module *)

\* unique_name, lines 61-67: the first free "<stem>__pswipe_<i><suf>", i = 1, 2, ...
RECURSIVE UniqueFrom(_, _, _, _, _)
UniqueFrom(disk, f, dir, base, i) ==
    LET cand == AbsPath(f, dir, Name(base.stem, Append(base.tags, i), base.ext))
    IN  IF ~Exists(disk, cand) THEN cand ELSE UniqueFrom(disk, f, dir, base, i + 1)

\* unique_name(target_dir, base_name), target_dir = f/dir
unique_name(disk, f, dir, base) ==
    LET cand == AbsPath(f, dir, base)
    IN  IF ~Exists(disk, cand) THEN cand ELSE UniqueFrom(disk, f, dir, base, 1)

\* a scan that forgets to leave out the staging directory
ScanWithStaging(disk, root) ==
    {RelativeTo(p) : p \in {q \in DOMAIN disk :
        q.folder = root /\ Lower(q.name.ext) \in IMG_EXT}}

\* scan_images_recursive(root): the relative paths found (rglob's order is unspecified
\* and the callers shuffle the list, so the result is kept as a set)
scan_images_recursive(disk, root) ==
    {RelativeTo(p) : p \in {q \in DOMAIN disk :
        /\ q.folder = root
        /\ q.dir # BACKUP_DIRNAME
        /\ Lower(q.name.ext) \in IMG_EXT}}

\* random.shuffle(files): any ordering of the scanned paths
Shuffles(S) ==
    {s \in [1..Cardinality(S) -> S] : \A i, j \in 1..Cardinality(S) : s[i] = s[j] => i = j}

\* list.pop(i) and list.insert(i, x), i counted from 0
Pop(seq, i) == SubSeq(seq, 1, i) \o SubSeq(seq, i + 2, Len(seq))
Insert(seq, i, x) == SubSeq(seq, 1, i) \o <<x>> \o SubSeq(seq, i + 1, Len(seq))

\* current_path(): has the session a current entry
HasCurrent(fld, order, idx) ==
    /\ fld # NoFolder
    /\ order # <<>>
    /\ 0 <= idx /\ idx < Len(order)

\* current_path() when it is not None
current_path(fld, order, idx) == Join(fld, order[idx + 1])

\* QPixmap(str(p)).isNull(): the file is missing or cannot be decoded
IsNull(disk, bad, p) == ~Exists(disk, p) \/ disk[p] \in bad

\* lines 318-319 / 363-364: the clamp after an entry left the list
ClampToLen(idx, order) == IF idx >= Len(order) THEN Len(order) ELSE idx

\* a display refresh that steps over an entry it cannot load instead of dropping it
ShowCurrentSkips(fld, order, idx, shown, disk, bad) ==
    IF ~HasCurrent(fld, order, idx)
    THEN [order |-> order, index |-> idx, shown |-> TRUE, dlg |-> ~shown]
    ELSE IF IsNull(disk, bad, current_path(fld, order, idx))
         THEN [order |-> order, index |-> idx + 1, shown |-> shown, dlg |-> FALSE]
         ELSE [order |-> order, index |-> idx, shown |-> shown, dlg |-> FALSE]

\* show_current(): drops the entries that cannot be loaded, and reports in dlg
\* whether on_finished_list was called (the modal dialog is now open)
RECURSIVE show_current(_, _, _, _, _, _)
show_current(fld, order, idx, shown, disk, bad) ==
    IF ~HasCurrent(fld, order, idx)
    THEN [order |-> order, index |-> idx, shown |-> TRUE, dlg |-> ~shown]
    ELSE IF IsNull(disk, bad, current_path(fld, order, idx))
         THEN LET o2 == Pop(order, idx)
              IN  show_current(fld, o2, ClampToLen(idx, o2), shown, disk, bad)
         ELSE [order |-> order, index |-> idx, shown |-> shown, dlg |-> FALSE]

\* where the program is once a handler that called show_current returns
AfterShow(at, dlg) ==
    IF ~dlg THEN "idle"
    ELSE IF at \in {"ctor", "ctor_dialog"} THEN "ctor_dialog" ELSE "dialog"

\* _commit_pending_delete(): the file systems it can leave (unlink may fail and the
\* failure is swallowed); last_action is None afterwards in every case
CommitDisks(disk, la) ==
    IF la.type = "delete" /\ Exists(disk, la.backup_path)
    THEN {RemoveFile(disk, la.backup_path), disk}
    ELSE {disk}

\* _clear_backup_dir(): every file of the staging directory is unlinked, each
\* unlink may fail and the failure is swallowed
ClearDisks(disk, fld) ==
    IF fld = NoFolder THEN {disk}
    ELSE {RemoveFiles(disk, gone) : gone \in SUBSET Staged(disk, fld)}

\* an advance that leaves the cursor where it is
AdvanceStays(idx, step, order) == idx

\* _advance(step), lines 297-301: the new index, before show_current
Advance(idx, step, order) ==
    LET i == idx + step
    IN  IF i >= Len(order) THEN Len(order) ELSE IF i < 0 THEN 0 ELSE i

\* a restart that forgets to reset the index
ResetIndexForgotten(idx) == idx

\* load_folder, line 253, and reshuffle_and_restart, line 442: self.index = 0
ResetIndex(idx) == 0

\* an undo of a keep that rewinds to the start of the list
UndoKeepIndexToStart(idx) == 0

\* an undo of a keep that leaves the cursor where it is
UndoKeepIndexStays(idx) == idx

\* undo_last, lines 376-377: the index after a keep is undone
UndoKeepIndex(idx) == IF idx > 0 THEN idx - 1 ELSE idx

\* an undo of a delete that appends the restored entry
InsertPosAtEnd(idx, order) == Len(order)

\* undo_last, line 398: insert_pos = max(min(self.index, len(self.files_order)), 0)
InsertPos(idx, order) ==
    LET m == IF idx < Len(order) THEN idx ELSE Len(order)
    IN  IF m > 0 THEN m ELSE 0

\* an undo that moves the staged file back without looking at the destination
RestoreDestOverwrites(disk, fld, orig_rel) == Join(fld, orig_rel)

\* undo_last, lines 388-391: where the staged file is moved back to
RestoreDest(disk, fld, orig_rel) ==
    LET dest == Join(fld, orig_rel)
    IN  IF Exists(disk, dest) THEN unique_name(disk, fld, dest.dir, dest.name) ELSE dest

\* a keep that records the cursor after advancing it
KeepRecordAfterAdvance(idx) == [type |-> "keep", prev_index |-> idx + 1]

\* request_delete, lines 357-361 and request_keep, line 331: the undo records
DeleteRecord(rel, backup_target) ==
    [type |-> "delete", orig_rel |-> rel, backup_path |-> backup_target]
KeepRecord(idx) == [type |-> "keep", prev_index |-> idx]

-----------------------------------------------------------------------------
(* The folders on disk when the program starts *)

A == Name("a", <<>>, "jpg")
A1 == Name("a", <<1>>, "jpg")

\* three images in F1, one of them in a subfolder under the same base name, and
\* one image with an upper-case suffix in F2
DiskThree ==
    (AbsPath("F1", "", A) :> "f1") @@ (AbsPath("F1", "", A1) :> "f2") @@
    (AbsPath("F1", "sub", A) :> "f3") @@
    (AbsPath("F2", "", Name("note", <<>>, "txt")) :> "f4") @@
    (AbsPath("F2", "", Name("b", <<>>, "PNG")) :> "f5")

\* two images in F1 and no image in F2
DiskTwo ==
    (AbsPath("F1", "", A) :> "f1") @@ (AbsPath("F1", "", A1) :> "f2") @@
    (AbsPath("F2", "", Name("note", <<>>, "txt")) :> "f4")

\* the start configurations: the file system, the contents that cannot be decoded
\* and the number of files other programs will create during the run
InitWorlds ==
    {<<DiskThree, {}, 0>>, <<DiskThree, {"f2"}, 0>>, <<DiskThree, {"f5"}, 0>>,
     <<DiskTwo, {}, MaxExternal>>}

\* the content of the n-th file another program creates
ExternalId(n) == IF n = 1 THEN "x1" ELSE "x2"

-----------------------------------------------------------------------------
(* The program *)

Init ==
    /\ folder = NoFolder
    /\ files_order = <<>>
    /\ index = 0
    /\ last_action = NoAction
    /\ finished_dialog_shown = FALSE
    /\ pc = "ctor"
    /\ \E w \in InitWorlds : fs = w[1] /\ corrupt = w[2] /\ extLeft = w[3]
    /\ lastOp = "init"
    /\ prevOp = "other"
    /\ pre = NoSnapshot

\* what prevOp remembers of an operation
Remembered(op) == IF op \in {"keep", "undoKeep"} THEN op ELSE "other"

\* history bookkeeping of an operation other than a successful delete or its undo
Hist(op) ==
    /\ lastOp' = op
    /\ prevOp' = Remembered(lastOp)
    /\ pre' = NoSnapshot

\* __init__ without a usable sys.argv[1] (lines 227-232): nothing is loaded
Construct ==
    /\ pc = "ctor"
    /\ pc' = "idle"
    /\ Hist("start")
    /\ UNCHANGED <<folder, files_order, index, last_action, finished_dialog_shown,
                   fs, corrupt, extLeft>>

\* load_folder(folder), from __init__ (line 230) or choose_folder (line 238)
load_folder(f) ==
    /\ pc \in {"ctor", "idle"}
    /\ folder' = f
    /\ LET files == scan_images_recursive(fs, f)
       IN  IF files = {}
           THEN /\ pc' = "idle"
                /\ Hist("loadEmpty")
                /\ UNCHANGED <<files_order, index, last_action,
                               finished_dialog_shown, fs>>
           ELSE \E shuffled \in Shuffles(files), d \in ClearDisks(fs, f) :
                LET r == show_current(f, shuffled, ResetIndex(index), FALSE, d, corrupt)
                IN  /\ files_order' = r.order
                    /\ index' = r.index
                    /\ last_action' = NoAction
                    /\ finished_dialog_shown' = r.shown
                    /\ fs' = d
                    /\ pc' = AfterShow(pc, r.dlg)
                    /\ Hist("load")
    /\ UNCHANGED <<corrupt, extLeft>>

LoadFolder == \E f \in Folders : load_folder(f)

\* a keep that records the action before it checks for a current entry
KeepRejectedRecords ==
    /\ last_action' = KeepRecord(index)
    /\ Hist("keepNoop")
    /\ UNCHANGED <<files_order, index, finished_dialog_shown, pc>>

\* request_keep, lines 327-330: there is no current entry; the handler returns
\* after _commit_pending_delete
KeepRejected ==
    /\ last_action' = NoAction
    /\ Hist("keepNoop")
    /\ UNCHANGED <<files_order, index, finished_dialog_shown, pc>>

\* request_keep(), lines 326-332
request_keep ==
    /\ pc = "idle"
    /\ \E d \in CommitDisks(fs, last_action) :
        /\ fs' = d
        /\ IF ~HasCurrent(folder, files_order, index)
           THEN KeepRejected
           ELSE LET r == show_current(folder, files_order,
                                      Advance(index, 1, files_order),
                                      finished_dialog_shown, d, corrupt)
                IN  /\ last_action' = KeepRecord(index)
                    /\ files_order' = r.order
                    /\ index' = r.index
                    /\ finished_dialog_shown' = r.shown
                    /\ pc' = AfterShow(pc, r.dlg)
                    /\ Hist("keep")
    /\ UNCHANGED <<folder, corrupt, extLeft>>

\* a delete that removes the entry before the staging move is known to have worked
DeleteFailedAfterPop(d) ==
    /\ fs' = d
    /\ last_action' = NoAction
    /\ files_order' = Pop(files_order, index)
    /\ Hist("deleteFail")
    /\ UNCHANGED <<index, finished_dialog_shown, pc>>

\* request_delete, lines 345-350: the staging move failed; the handler returns
DeleteFailed(d) ==
    /\ fs' = d
    /\ last_action' = NoAction
    /\ Hist("deleteFail")
    /\ UNCHANGED <<files_order, index, finished_dialog_shown, pc>>

\* request_delete, lines 352-365: the file is in staging; the entry leaves the list
DeleteStaged(d, rel, p, backup_target) ==
    LET d2 == MoveFile(d, p, backup_target)
        o2 == Pop(files_order, index)
        r  == show_current(folder, o2, ClampToLen(index, o2),
                           finished_dialog_shown, d2, corrupt)
    IN  /\ fs' = d2
        /\ last_action' = DeleteRecord(rel, backup_target)
        /\ files_order' = r.order
        /\ index' = r.index
        /\ finished_dialog_shown' = r.shown
        /\ pc' = AfterShow(pc, r.dlg)
        /\ lastOp' = "delete"
        /\ prevOp' = Remembered(lastOp)
        /\ pre' = [set |-> TRUE, order |-> files_order, index |-> index,
                   folder |-> folder, rel |-> rel, id |-> d[p]]

\* request_delete(), lines 334-365
request_delete ==
    /\ pc = "idle"
    /\ \E d \in CommitDisks(fs, last_action) :
        IF ~HasCurrent(folder, files_order, index)
        THEN /\ fs' = d
             /\ last_action' = NoAction
             /\ Hist("deleteNoop")
             /\ UNCHANGED <<files_order, index, finished_dialog_shown, pc>>
        ELSE LET rel == files_order[index + 1]
                 p == current_path(folder, files_order, index)
                 backup_target == unique_name(d, folder, BACKUP_DIRNAME, rel.name)
             IN  \E moved \in BOOLEAN :
                    IF moved /\ Exists(d, p)
                    THEN DeleteStaged(d, rel, p, backup_target)
                    ELSE DeleteFailed(d)
    /\ UNCHANGED <<folder, corrupt, extLeft>>

\* undo_last, lines 375-379: a keep is undone
UndoKeep ==
    LET r == show_current(folder, files_order, UndoKeepIndex(index),
                          finished_dialog_shown, fs, corrupt)
    IN  /\ last_action' = NoAction
        /\ files_order' = r.order
        /\ index' = r.index
        /\ finished_dialog_shown' = r.shown
        /\ pc' = AfterShow(pc, r.dlg)
        /\ Hist("undoKeep")
        /\ UNCHANGED fs

\* undo_last, lines 392-396: the restoring move failed; the handler returns
UndoFailed ==
    /\ last_action' = NoAction
    /\ Hist("undoFail")
    /\ UNCHANGED <<files_order, index, finished_dialog_shown, pc, fs>>

\* undo_last, lines 393-402: the staged file is moved back and re-enters the list
UndoRestored(backup_path, dest) ==
    LET d2 == MoveFile(fs, backup_path, dest)
        pos == InsertPos(index, files_order)
        o2 == Insert(files_order, pos, RelativeTo(dest))
        r  == show_current(folder, o2, pos, finished_dialog_shown, d2, corrupt)
    IN  /\ fs' = d2
        /\ last_action' = NoAction
        /\ files_order' = r.order
        /\ index' = r.index
        /\ finished_dialog_shown' = r.shown
        /\ pc' = AfterShow(pc, r.dlg)
        /\ lastOp' = "undoDelete"
        /\ prevOp' = Remembered(lastOp)
        /\ pre' = pre

\* an undo that steps back although nothing is pending
UndoNothingStepsBack ==
    /\ index' = IF index > 0 THEN index - 1 ELSE index
    /\ Hist("undoNone")
    /\ UNCHANGED <<files_order, last_action, finished_dialog_shown, pc, fs>>

\* undo_last, lines 368-370: "Nada para desfazer"
UndoNothing ==
    /\ Hist("undoNone")
    /\ UNCHANGED <<files_order, index, last_action, finished_dialog_shown, pc, fs>>

\* undo_last(), lines 367-404
undo_last ==
    /\ pc = "idle"
    /\ IF last_action = NoAction
       THEN UndoNothing
       ELSE IF last_action.type = "keep"
       THEN UndoKeep
       ELSE IF ~Exists(fs, last_action.backup_path)
       THEN /\ last_action' = NoAction
            /\ Hist("undoMissing")
            /\ UNCHANGED <<files_order, index, finished_dialog_shown, pc, fs>>
       ELSE \E moved \in BOOLEAN :
               IF moved
               THEN UndoRestored(last_action.backup_path,
                                 RestoreDest(fs, folder, last_action.orig_rel))
               ELSE UndoFailed
    /\ UNCHANGED <<folder, corrupt, extLeft>>

\* on_finished_list, lines 423-426, and reshuffle_and_restart: "Reembaralhar e recomecar"
FinishShuffle ==
    /\ pc \in {"dialog", "ctor_dialog"}
    /\ \E d \in CommitDisks(fs, last_action) :
        /\ last_action' = NoAction
        /\ IF folder = NoFolder
           THEN /\ fs' = d
                /\ pc' = "idle"
                /\ UNCHANGED <<files_order, index, finished_dialog_shown>>
           ELSE \E shuffled \in Shuffles(scan_images_recursive(d, folder)),
                   d2 \in ClearDisks(d, folder) :
                LET r == show_current(folder, shuffled, ResetIndex(index), FALSE, d2,
                                        corrupt)
                IN  /\ fs' = d2
                    /\ files_order' = r.order
                    /\ index' = r.index
                    /\ finished_dialog_shown' = r.shown
                    /\ pc' = AfterShow(pc, r.dlg)
    /\ Hist("shuffle")
    /\ UNCHANGED <<folder, corrupt, extLeft>>

\* on_finished_list, lines 427-429: "Sair".  close() ends the program, except
\* inside __init__, where main() shows the window afterwards (lines 468-470)
FinishExit ==
    /\ pc \in {"dialog", "ctor_dialog"}
    /\ \E d \in CommitDisks(fs, last_action) : fs' = d
    /\ last_action' = NoAction
    /\ pc' = IF pc = "ctor_dialog" THEN "idle" ELSE "closed"
    /\ Hist("exit")
    /\ UNCHANGED <<folder, files_order, index, finished_dialog_shown, corrupt, extLeft>>

\* another program creates a file at the path the staged file came from, while the
\* delete is pending (the collision that undo_last, lines 390-391, provides for)
ExternalCreate ==
    /\ pc = "idle"
    /\ extLeft > 0
    /\ last_action.type = "delete"
    /\ LET p == Join(folder, last_action.orig_rel)
       IN  /\ ~Exists(fs, p)
           /\ fs' = (p :> ExternalId(extLeft)) @@ fs
    /\ extLeft' = extLeft - 1
    /\ Hist("ext")
    /\ UNCHANGED <<folder, files_order, index, last_action, finished_dialog_shown,
                   pc, corrupt>>

Next ==
    \/ Construct
    \/ LoadFolder
    \/ request_keep
    \/ request_delete
    \/ undo_last
    \/ FinishShuffle
    \/ FinishExit
    \/ ExternalCreate

Spec == Init /\ [][Next]_vars

TypeOK ==
    /\ folder \in Folders \cup {NoFolder}
    /\ index \in Int
    /\ last_action.type \in {"none", "keep", "delete"}
    /\ finished_dialog_shown \in BOOLEAN
    /\ pc \in {"ctor", "ctor_dialog", "idle", "dialog", "closed"}
    /\ extLeft \in 0..MaxExternal

-----------------------------------------------------------------------------
(* Properties *)

NoDuplicates(order) == \A i, j \in 1..Len(order) : order[i] = order[j] => i = j

\* the files outside the staging directories are the same, with the same contents
RootFilesUnchanged ==
    /\ {p \in DOMAIN fs : p.dir # BACKUP_DIRNAME} = {p \in DOMAIN fs' : p.dir # BACKUP_DIRNAME}
    /\ \A p \in DOMAIN fs : p.dir # BACKUP_DIRNAME => fs'[p] = fs[p]

UndoOps == {"undoKeep", "undoDelete", "undoFail", "undoNone", "undoMissing"}
KeepOps == {"keep", "keepNoop"}
DeleteOps == {"delete", "deleteFail", "deleteNoop"}

\* a successful undo of a delete directly after that delete
RoundTripDone == lastOp = "undoDelete" /\ pre.set

\* the deleted file is back at the path it was deleted from
FileBack ==
    /\ Exists(fs, Join(pre.folder, pre.rel))
    /\ fs[Join(pre.folder, pre.rel)] = pre.id

\* how many entries directly after the deleted one could not be loaded
UnloadableRun ==
    Cardinality({j \in (pre.index + 2)..Len(pre.order) :
        \A k \in (pre.index + 2)..j :
            IsNull(fs, corrupt, Join(pre.folder, pre.order[k]))})

C2_UndoRetryable ==
    lastOp = "undoFail" =>
        /\ last_action.type = "delete"
        /\ Exists(fs, last_action.backup_path)

\* C3: when delete() is invoked while an earlier action is pending and the staging
\* move fails, the in-memory state is as before the call: the earlier action is
\* still pending and, if it was a Delete, its staged file is still in staging.
C3_FailedDeleteKeepsPending ==
    [][(lastOp' = "deleteFail" /\ last_action # NoAction) =>
          /\ last_action' = last_action
          /\ files_order' = files_order
          /\ index' = index
          /\ (last_action.type = "delete" => Exists(fs', last_action.backup_path))]_vars

\* C4: when the staging move inside delete() fails, order and cursor are unmodified
\* (the current entry is still in order), no Delete record exists for it, and no file
\* outside staging has moved.
C4_FailedDeleteAtomic ==
    [][lastOp' = "deleteFail" =>
          /\ HasCurrent(folder, files_order, index)
          /\ files_order' = files_order
          /\ index' = index
          /\ last_action'.type # "delete"
          /\ RootFilesUnchanged]_vars

\* a delete failed on an entry whose file is at its source path
C4_Witness ==
    /\ lastOp = "deleteFail"
    /\ HasCurrent(folder, files_order, index)
    /\ Exists(fs, current_path(folder, files_order, index))

C6_UndoOneLevel ==
    [][/\ (lastOp' \in {"undoKeep", "undoDelete"} => last_action' = NoAction)
       /\ (prevOp = "keep" /\ lastOp = "keep" /\ lastOp' \in UndoOps =>
              /\ lastOp' = "undoKeep"
              /\ index' = index - 1
              /\ files_order' = files_order)
       /\ (lastOp = "undoKeep" /\ lastOp' \in UndoOps =>
              /\ lastOp' = "undoNone"
              /\ index' = index
              /\ files_order' = files_order)]_vars

\* keep(); keep(); undo(); undo() happened: the second undo found nothing to undo, and
\* the cursor still stands behind the first keep
C6_Witness ==
    /\ lastOp = "undoNone"
    /\ prevOp = "undoKeep"
    /\ index = 1
    /\ Len(files_order) = 3

\* C7: every file in a staging directory is the staged file of the live pending
\* Delete action (so staging is empty when pendingAction is none or a Keep).
C7_StagingOnlyPending ==
    \A p \in DOMAIN fs :
        p.dir = BACKUP_DIRNAME =>
            /\ last_action.type = "delete"
            /\ p = last_action.backup_path

\* C8: 0 <= cursor <= len(order) in every reachable state.
C8_CursorInRange == 0 <= index /\ index <= Len(files_order)

\* the cursor has reached the end of a list that still has entries
C8_Witness == pc = "dialog" /\ index = Len(files_order) /\ index > 0

\* C9: order never contains the same relative path twice.
C9_OrderUnique == NoDuplicates(files_order)

\* C10: undo() with no pending action reports "nothing to undo" and changes neither
\* order, cursor, pendingAction nor any file.
C10_UndoNothingNoOp ==
    [][last_action = NoAction /\ lastOp' \in UndoOps =>
          /\ lastOp' = "undoNone"
          /\ UNCHANGED <<folder, files_order, index, last_action, fs, pc>>]_vars

\* undo() found nothing to undo while an entry was shown and the cursor was not at 0
C10_Witness ==
    /\ lastOp = "undoNone"
    /\ HasCurrent(folder, files_order, index)
    /\ index > 0

\* the files present anywhere on the disk
FilesOnDisk(disk) == {disk[p] : p \in DOMAIN disk}

\* the entries of order as a set
Entries(order) == {order[i] : i \in 1..Len(order)}

\* order lists paths of folder fld's scan, none twice, and every scanned path it
\* lacks cannot be loaded (show_current drops such entries when they come up)
FreshOrder(order, fld) ==
    /\ NoDuplicates(order)
    /\ Entries(order) \subseteq scan_images_recursive(fs, fld)
    /\ \A rel \in scan_images_recursive(fs, fld) \ Entries(order) :
          IsNull(fs, corrupt, Join(fld, rel))

\* C11: after openFolder(F), also when the scan of F finds no eligible file, the
\* session is the start state for F: order lists F's scan (entries the first display
\* dropped as unloadable aside), cursor is 0 and pendingAction is none; nothing of
\* the folder opened before remains.
C11_OpenFolderStarts ==
    lastOp \in {"load", "loadEmpty"} =>
        /\ FreshOrder(files_order, folder)
        /\ index = 0
        /\ last_action = NoAction

\* C12 as stated: finish(restart = true) from Exhausted leaves order a permutation of
\* a fresh scan of the root, cursor 0, no pending action and an empty staging
\* directory.
C12_RestartExact ==
    lastOp = "shuffle" =>
        /\ files_order \in Shuffles(scan_images_recursive(fs, folder))
        /\ index = 0
        /\ last_action = NoAction
        /\ Staged(fs, folder) = {}

\* C12, amended: finish(restart = true) from Exhausted leaves a duplicate-free order
\* of paths of a fresh scan, none from staging, lacking only scanned entries that
\* cannot be loaded (the first display drops them), cursor 0 and no pending action;
\* no file outside staging is touched and staging holds nothing it did not hold
\* before (a file stays there only when its removal failed).
C12_Restart ==
    [][lastOp' = "shuffle" =>
          /\ FreshOrder(files_order, folder)'
          /\ \A rel \in Entries(files_order') : rel.dir # BACKUP_DIRNAME
          /\ index' = 0
          /\ last_action' = NoAction
          /\ RootFilesUnchanged
          /\ Staged(fs', folder) \subseteq Staged(fs, folder)]_vars

\* a restart that committed a pending Delete and began a new pass over two files
C12_Witness ==
    /\ lastOp = "shuffle"
    /\ pc = "idle"
    /\ Len(files_order) = 2
    /\ Cardinality(scan_images_recursive(fs, folder)) = 2
    /\ "f1" \notin FilesOnDisk(fs)

\* C13: keep() or delete() invoked while a Delete is pending first commits it, so
\* the earlier staged file exists nowhere afterwards; after two consecutive
\* successful delete() staging holds exactly the second file, order is two entries
\* shorter (further unloadable entries dropped by the display aside) and cursor is
\* unchanged.
C13_SecondDeleteCommitsFirst ==
    [][lastOp = "delete" /\ pre.set /\ lastOp' \in {"keep", "delete"} =>
          /\ pre.id \notin FilesOnDisk(fs')
          /\ lastOp' = "delete" =>
                /\ Staged(fs', folder) = {last_action'.backup_path}
                /\ Len(files_order') <= Len(pre.order) - 2
                /\ index' = pre.index]_vars

\* how many entries of order, from the 0-based position pos on, cannot be loaded one
\* after the other
RunAt(order, pos, disk, fld) ==
    Cardinality({j \in (pos + 1)..Len(order) :
        \A k \in (pos + 1)..j : IsNull(disk, corrupt, Join(fld, order[k]))})

\* order without that run: what the display refresh leaves when the cursor is at pos
WithoutRun(order, pos, disk, fld) ==
    SubSeq(order, 1, pos) \o SubSeq(order, pos + 1 + RunAt(order, pos, disk, fld), Len(order))

\* C14 as stated: keep() with a current entry records Keep{priorCursor = the cursor
\* before the call}, increases cursor by exactly 1, leaves order unchanged and
\* leaves every file outside staging where it is.
C14_KeepFrameExact ==
    [][lastOp' = "keep" =>
          /\ last_action' = [type |-> "keep", prev_index |-> index]
          /\ index' = index + 1
          /\ files_order' = files_order
          /\ RootFilesUnchanged]_vars

\* C14, amended: keep() with a current entry records Keep{priorCursor = the cursor
\* before the call}, increases cursor by exactly 1 and leaves every file outside
\* staging where it is; order is unchanged except that the unloadable entries
\* standing at the new cursor are dropped.
C14_KeepFrame ==
    [][lastOp' = "keep" =>
          /\ last_action' = [type |-> "keep", prev_index |-> index]
          /\ index' = index + 1
          /\ files_order' = WithoutRun(files_order, index + 1, fs', folder)
          /\ RootFilesUnchanged]_vars

\* a keep of the second of three entries, with the first two still listed
C14_Witness ==
    /\ lastOp = "keep"
    /\ last_action = [type |-> "keep", prev_index |-> 1]
    /\ index = 2
    /\ Len(files_order) = 3

\* C15: a keep() or delete() that exhausts the list stays undoable until the user
\* chooses restart or exit: in the Exhausted state the pending action is still
\* there and undo() can be performed before finish.
C15_UndoWhenExhausted ==
    ~HasCurrent(folder, files_order, index) /\ last_action # NoAction /\ pc # "closed"
        => ENABLED undo_last

\* C16: undo() of a pending Keep sets cursor to the priorCursor the Keep recorded and
\* clears pendingAction, also when corrupt entries were dropped after the keep; the
\* result is never below 0 and exactly one less than the cursor before the undo.
C16_UndoKeepToPrior ==
    [][last_action.type = "keep" /\ lastOp' \in UndoOps =>
          /\ lastOp' = "undoKeep"
          /\ index' = last_action.prev_index
          /\ index' = index - 1
          /\ index' >= 0
          /\ last_action' = NoAction]_vars

\* a keep undone in a three-file folder whose corrupt entry has been dropped from
\* the list; the kept entry is current again
C16_Witness ==
    /\ lastOp = "undoKeep"
    /\ corrupt # {}
    /\ Cardinality(scan_images_recursive(fs, folder)) = 3
    /\ Len(files_order) = 2
    /\ index = 0
    /\ pc = "idle"

\* the list and the cursor a handler hands to the display refresh
ShownOrder == IF lastOp' = "delete" THEN Pop(files_order, index) ELSE files_order
ShownAt ==
    CASE lastOp' = "keep" -> index + 1
      [] lastOp' = "delete" -> index
      [] OTHER -> index - 1

\* p is the file that the step, a delete(), moved into staging
StagedByStep(p) == lastOp' = "delete" /\ p = current_path(folder, files_order, index)

\* C17: an entry that cannot be loaded when it becomes current is removed from order
\* with the cursor held at the same index (clamped to the length of order); its file
\* is neither moved nor deleted (the only file that leaves its place is the one a
\* delete() stages) and the drop records nothing: pendingAction is what
\* the keep(), delete() or undo() that led to the drop set, so that is what undo()
\* reverses.
C17_DropFrame ==
    [][lastOp' \in {"keep", "delete", "undoKeep"} =>
          LET n == RunAt(ShownOrder, ShownAt, fs', folder)
          IN  /\ files_order' = WithoutRun(ShownOrder, ShownAt, fs', folder)
              /\ index' = IF ShownAt < Len(files_order') THEN ShownAt ELSE Len(files_order')
              /\ \A k \in (ShownAt + 1)..(ShownAt + n) :
                    LET p == Join(folder, ShownOrder[k])
                    IN  Exists(fs, p) /\ ~StagedByStep(p) =>
                            Exists(fs', p) /\ fs'[p] = fs[p]
              /\ lastOp' = "keep" => last_action' = [type |-> "keep", prev_index |-> index]
              /\ lastOp' = "delete" =>
                    /\ last_action'.type = "delete"
                    /\ last_action'.orig_rel = files_order[index + 1]
              /\ lastOp' = "undoKeep" => last_action' = NoAction]_vars

\* a delete whose refresh dropped the corrupt entry that followed the deleted one:
\* the list is two entries shorter and the pending Delete is that of the deleted file
C17_Witness ==
    /\ lastOp = "delete"
    /\ pre.set
    /\ Len(pre.order) = Len(files_order) + 2
    /\ pc = "idle"
    /\ last_action.type = "delete"
    /\ last_action.orig_rel = pre.rel
    /\ Cardinality(scan_images_recursive(fs, folder)) = 2

\* C18: undo() of a Delete never overwrites an existing file: every file other than
\* the staged one stays as it is; the staged file goes back to the original path
\* when that is free and otherwise to a free disambiguated name beside it, and the
\* entry inserted at min(cursor, len(order)), which becomes current, is the relative
\* path actually used.
C18_UndoNeverOverwrites ==
    [][lastOp' = "undoDelete" =>
          LET bp == last_action.backup_path
              orig == Join(folder, last_action.orig_rel)
              pos == IF index < Len(files_order) THEN index ELSE Len(files_order)
              dest == Join(folder, files_order'[pos + 1])
          IN  /\ \A p \in DOMAIN fs \ {bp} : Exists(fs', p) /\ fs'[p] = fs[p]
              /\ ~Exists(fs', bp)
              /\ ~Exists(fs, dest) /\ Exists(fs', dest) /\ fs'[dest] = fs[bp]
              /\ ~Exists(fs, orig) => dest = orig
              /\ Exists(fs, orig) =>
                    /\ dest # orig
                    /\ dest.dir = orig.dir
                    /\ dest.name.stem = orig.name.stem
                    /\ dest.name.ext = orig.name.ext
              /\ index' = pos
              /\ files_order' = Insert(files_order, pos, RelativeTo(dest))]_vars

\* a.jpg was deleted, another program put a new a.jpg in its place, and the undo
\* restored the staged file as a__pswipe_2.jpg, a__pswipe_1.jpg being taken as well
C18_Witness ==
    /\ lastOp = "undoDelete"
    /\ folder = "F1"
    /\ HasCurrent(folder, files_order, index)
    /\ current_path(folder, files_order, index) = AbsPath("F1", "", Name("a", <<2>>, "jpg"))
    /\ Exists(fs, current_path(folder, files_order, index))
    /\ fs[current_path(folder, files_order, index)] = "f1"
    /\ Exists(fs, AbsPath("F1", "", A))
    /\ fs[AbsPath("F1", "", A)] \in {ExternalId(1), ExternalId(2)}
    /\ Exists(fs, AbsPath("F1", "", A1))
    /\ fs[AbsPath("F1", "", A1)] = "f2"

\* C19: no file is silently lost: after every step each file still on disk is either
\* outside staging or is the staged file of the pending Delete, and a file leaves
\* its place outside staging only through a delete() invoked on it as the current
\* entry; a file that was only kept, or not acted on, is never moved or removed.
C19_NoFileLost ==
    [][/\ \A p \in DOMAIN fs' :
             p.dir = BACKUP_DIRNAME =>
                 last_action'.type = "delete" /\ last_action'.backup_path = p
       /\ \A p \in DOMAIN fs :
             p.dir # BACKUP_DIRNAME /\ (~Exists(fs', p) \/ fs'[p] # fs[p]) =>
                 /\ lastOp' = "delete"
                 /\ HasCurrent(folder, files_order, index)
                 /\ p = current_path(folder, files_order, index)]_vars

\* the user goes on triaging: a keep() that is possible is eventually made
FairSpec == Spec /\ WF_vars(request_keep)

\* the entries not yet triaged
Remaining == Len(files_order) - index

\* C20 as stated: every successful keep() or delete() decreases len(order) - cursor
\* by exactly 1 and every successful undo() increases it by exactly 1.
C20_ProgressExact ==
    [][/\ lastOp' \in {"keep", "delete"} => Remaining' = Remaining - 1
       /\ lastOp' \in {"undoKeep", "undoDelete"} => Remaining' = Remaining + 1]_vars

\* C20, amended: a successful keep() or delete() decreases len(order) - cursor by 1
\* plus the number of unloadable entries its refresh drops, a successful undo()
\* increases it by 1 less that number, and a session starts with at most as many
\* entries as the scan found; so a run in which from some point on only keep() and
\* delete() are taken ends Exhausted.
C20_Progress ==
    /\ [][/\ lastOp' \in {"keep", "delete"} =>
                Remaining' = Remaining - 1 - RunAt(ShownOrder, ShownAt, fs', folder)
          /\ lastOp' = "undoKeep" =>
                Remaining' = Remaining + 1 - RunAt(ShownOrder, ShownAt, fs', folder)
          /\ lastOp' = "undoDelete" => Remaining' = Remaining + 1
          /\ lastOp' \in {"load", "shuffle"} =>
                Remaining' <= Cardinality(scan_images_recursive(fs', folder'))]_vars
    /\ <>[][lastOp' \in KeepOps \cup DeleteOps]_vars
          => <>[](~HasCurrent(folder, files_order, index))

\* two keeps exhausted a folder of three images, one of them corrupt
C20_Witness ==
    /\ lastOp = "keep"
    /\ prevOp = "keep"
    /\ pc = "dialog"
    /\ index = 2
    /\ Len(files_order) = 2
    /\ Cardinality(scan_images_recursive(fs, folder)) = 3

====
